---- MODULE Spec2Model ----
(***************************************************************************)
(* A model of pegnetd's sync engine (node/sync.go): the outer loop         *)
(* DBlockSync, the per-height pipeline SyncBlock with its application      *)
(* phases, the holding drain, the transaction-batch applier, and the       *)
(* parallel entry fetcher multiFetch.                                      *)
(*                                                                         *)
(* The store (package node/pegnet) and the grader are collaborators whose  *)
(* code is not part of sync.go; their operations are modelled from the     *)
(* written specification and every one of them can fail.                   *)
(***************************************************************************)
EXTENDS Integers, Sequences, FiniteSets, TLC

\* Highest directory-block height the upstream node ever reports.
MaxHeight == 3

\* A phase of SyncBlock may have its f-th store/upstream call fail, f in 1..MaxFaultPos.
MaxFaultPos == 12

\* Largest number of entries of an entry block handed to multiFetch.
MaxEntries == 2

\* for i := 0; i < 8; i++ { go func() ... }: the size of the worker pool
NumWorkers == 8

\* --------------------------------------------------------------------------
\* Data: addresses, tickers, transactions, batches, blocks
\* --------------------------------------------------------------------------

Addrs == {"A", "B"}

Tickers == {"pFCT", "PEG"}

Hashes == {"h1", "h2", "h3", "h4", "h5"}

\* rates == nil || len(rates) == 0
NoRates == << >>

NoConv == "none"

Transfer(adr, tkr, amt, outs) ==
    [in |-> [adr |-> adr, tkr |-> tkr, amt |-> amt], conv |-> NoConv, transfers |-> outs]

Conversion(adr, tkr, amt, to) ==
    [in |-> [adr |-> adr, tkr |-> tkr, amt |-> amt], conv |-> to, transfers |-> << >>]

\* tx.IsConversion()
IsConversion(tx) == tx.conv # NoConv

\* txBatch.HasConversions(): some transaction of the batch is a conversion
HasConversions(batch) == \E i \in 1..Len(batch.txs) : IsConversion(batch.txs[i])

\* txBatch.Validate(): a deterministic check of the batch itself
Validate(batch) == batch.valid

\* One transfer of 2 pFCT from A to B.
BatchT1 ==
    [hash |-> "h1", valid |-> TRUE,
     txs |-> << Transfer("A", "pFCT", 2, << [adr |-> "B", amt |-> 2] >>) >>]

\* Two transfers; the second one asks for more than A can hold after the first.
BatchT2 ==
    [hash |-> "h2", valid |-> TRUE,
     txs |-> << Transfer("A", "pFCT", 1, << [adr |-> "B", amt |-> 1] >>),
                Transfer("A", "pFCT", 5, << [adr |-> "B", amt |-> 5] >>) >>]

\* A conversion of 2 pFCT into PEG by A.
BatchCV ==
    [hash |-> "h3", valid |-> TRUE,
     txs |-> << Conversion("A", "pFCT", 2, "PEG") >>]

\* A conversion of 1 pFCT into PEG by A, followed by a transfer of 1 pFCT.
BatchCV2 ==
    [hash |-> "h5", valid |-> TRUE,
     txs |-> << Conversion("A", "pFCT", 1, "PEG"),
                Transfer("A", "pFCT", 1, << [adr |-> "B", amt |-> 1] >>) >>]

\* A well-formed entry whose batch does not validate.
BatchBad ==
    [hash |-> "h4", valid |-> FALSE,
     txs |-> << Transfer("B", "pFCT", 1, << [adr |-> "A", amt |-> 1] >>) >>]

Entry(batch) == [parses |-> TRUE, batch |-> batch]

\* An entry that UnmarshalEntry rejects.
Garbage == [parses |-> FALSE, batch |-> BatchBad]

\* A factoid transaction that satisfies the burn pattern for `amt` FCT of `adr`.
BurnTx(adr, amt) ==
    [ecOutputs |-> << [burnRCD |-> TRUE, amt |-> 0] >>,
     fctInputs |-> << [adr |-> adr, amt |-> amt] >>,
     fctOutputs |-> 0]

\* A factoid transaction that buys entry credits: not a burn.
BuyECTx(adr, amt) ==
    [ecOutputs |-> << [burnRCD |-> FALSE, amt |-> amt] >>,
     fctInputs |-> << [adr |-> adr, amt |-> amt] >>,
     fctOutputs |-> 0]

\* Results of grading: no OPR block, a graded block without winners, and
\* graded blocks with winners (winners[0] carries the rate vector).
NotGraded == [graded |-> FALSE, winners |-> << >>]

NoWinners == [graded |-> TRUE, winners |-> << >>]

\* The rate vector of a winner that is not the first.
RatesLast == [t \in Tickers |-> 1]

Winners(rates) ==
    [graded |-> TRUE,
     winners |-> << [adr |-> "B", addrOk |-> TRUE, payout |-> 2, rates |-> rates],
                    [adr |-> "A", addrOk |-> FALSE, payout |-> 1, rates |-> RatesLast] >>]

RatesA == [t \in Tickers |-> IF t = "pFCT" THEN 3 ELSE 2]

RatesZero == [t \in Tickers |-> IF t = "pFCT" THEN 0 ELSE 2]

\* The directory blocks the upstream chain may hold at a height.
Blocks ==
    { [opr |-> NotGraded, hasTx |-> FALSE, entries |-> << >>,
       ftxs |-> << BurnTx("A", 3), BuyECTx("B", 1) >>],
      [opr |-> NoWinners, hasTx |-> TRUE,
       entries |-> << Entry(BatchT2), Entry(BatchT1), Garbage, Entry(BatchBad) >>,
       ftxs |-> << >>],
      [opr |-> NotGraded, hasTx |-> TRUE,
       entries |-> << Entry(BatchCV), Entry(BatchCV), Entry(BatchT1) >>,
       ftxs |-> << BurnTx("A", 1) >>],
      [opr |-> Winners(RatesA), hasTx |-> TRUE,
       entries |-> << Entry(BatchT1) >>,
       ftxs |-> << >>],
      [opr |-> Winners(RatesZero), hasTx |-> TRUE,
       entries |-> << Entry(BatchCV), Entry(BatchCV2) >>,
       ftxs |-> << BurnTx("A", 2) >>] }

NoBlock == [opr |-> NotGraded, hasTx |-> FALSE, entries |-> << >>, ftxs |-> << >>]

\* --------------------------------------------------------------------------
\* The store: committed state and the working copy of an open transaction
\* --------------------------------------------------------------------------

\* The empty store.  bal, rel, holding, rates, grades and synced are the
\* tables; execs, drops, heldApplied, drainFault, minted, txRuns,
\* zeroDrops, drainLog, drainAt and convs are history kept with the tables
\* so that it commits and rolls back with them.
EmptyStore ==
    [bal         |-> [k \in Addrs \X Tickers |-> 0],
     rel         |-> {},
     holding     |-> << >>,
     rates       |-> {},
     grades      |-> {},
     synced      |-> 0,
     execs       |-> [h \in Hashes |-> 0],
     drops       |-> {},
     heldApplied |-> {},
     drainFault  |-> FALSE,
     minted      |-> FALSE,
     txRuns      |-> {},
     zeroDrops   |-> {},
     drainLog    |-> {},
     drainAt     |-> 0,
     convs       |-> {}]

\* A call in progress: the store it works on, the number of store/upstream
\* calls made so far in this phase, which of them fails, the error and the
\* value returned by the last call.
Ctx(st, failAt) == [st |-> st, n |-> 0, failAt |-> failAt, err |-> "nil", ret |-> 0]

Ok(c) == c.err = "nil"

\* The next call is made; it fails when it is the failAt-th.
Called(c) == [c EXCEPT !.n = @ + 1]

Faults(c) == c.n + 1 = c.failAt

Fail(c, e) == [Called(c) EXCEPT !.err = e]

\* --------------------------------------------------------------------------
\* Store operations (package node/pegnet), each of which may fail
\* --------------------------------------------------------------------------

\* SubFromBalance: a store fault, or InsufficientBalance raised before any
\* mutation, or the debit.
SubFromBalance(c, adr, tkr, amt) ==
    IF Faults(c) THEN Fail(c, "store")
    ELSE IF c.st.bal[<<adr, tkr>>] < amt THEN Fail(c, "insufficient")
    ELSE [Called(c) EXCEPT !.st.bal[<<adr, tkr>>] = @ - amt]

\* AddToBalance: a store fault or the credit.
AddToBalance(c, adr, tkr, amt) ==
    IF Faults(c) THEN Fail(c, "store")
    ELSE [Called(c) EXCEPT !.st.bal[<<adr, tkr>>] = @ + amt]

\* InsertTransactionRelation: appends the row
\* (address, batch hash, tx index, output side, conversion).
InsertTransactionRelation(c, adr, hash, txIndex, isOutput, isConv) ==
    IF Faults(c) THEN Fail(c, "store")
    ELSE [Called(c) EXCEPT !.st.rel = @ \cup
            {[adr |-> adr, hash |-> hash, idx |-> txIndex, out |-> isOutput, conv |-> isConv]}]

\* IsReplayTransaction: the batch hash already has rows in the ledger.
\* The relation rows are the only record of an applied batch that sync.go
\* writes, so they are the replay marks.
IsReplayTransaction(c, hash) ==
    IF Faults(c) THEN Fail(c, "store")
    ELSE [Called(c) EXCEPT !.ret = (\E r \in c.st.rel : r.hash = hash)]

\* InsertTransactionBatchHolding: appends the batch to the holding queue
\* tagged with the height it entered at.
InsertTransactionBatchHolding(c, batch, height) ==
    IF Faults(c) THEN Fail(c, "store")
    ELSE [Called(c) EXCEPT !.st.holding = Append(@, [batch |-> batch, entered |-> height])]

\* InsertGradeBlock: persists the grading artifacts of the height.
InsertGradeBlock(c, height) ==
    IF Faults(c) THEN Fail(c, "store")
    ELSE [Called(c) EXCEPT !.st.grades = @ \cup {height}]

\* InsertRate: records the rate epoch of the height.
InsertRate(c, height, rates) ==
    IF Faults(c) THEN Fail(c, "store")
    ELSE [Called(c) EXCEPT !.st.rates = {r \in @ : r.h # height} \cup {[h |-> height, v |-> rates]}]

\* InsertSynced: persists the cursor.
InsertSynced(c, synced) ==
    IF Faults(c) THEN Fail(c, "store")
    ELSE [Called(c) EXCEPT !.st.synced = synced]

\* Heights below `height` that have a rate epoch in store `st`.
RateHeightsBefore(st, height) == {r.h : r \in {x \in st.rates : x.h < height}}

Max(S) == CHOOSE x \in S : \A y \in S : y <= x

RatesAt(st, height) ==
    IF \E r \in st.rates : r.h = height
    THEN (CHOOSE r \in st.rates : r.h = height).v
    ELSE NoRates

\* SelectMostRecentRatesBeforeHeight: the height of the most recent rate
\* epoch strictly before `height`; the zero height when there is none.
SelectMostRecentRatesBeforeHeight(c, height) ==
    IF Faults(c) THEN Fail(c, "store")
    ELSE [Called(c) EXCEPT !.ret =
            IF RateHeightsBefore(c.st, height) = {} THEN 0
            ELSE Max(RateHeightsBefore(c.st, height))]

\* SelectPendingRates: the rate vector in effect for deferred execution at
\* `height`: the one recorded at `height`, else the most recent before it.
SelectPendingRates(c, height) ==
    IF Faults(c) THEN Fail(c, "store")
    ELSE [Called(c) EXCEPT !.ret =
            IF \E r \in c.st.rates : r.h = height THEN RatesAt(c.st, height)
            ELSE IF RateHeightsBefore(c.st, height) = {} THEN NoRates
            ELSE RatesAt(c.st, Max(RateHeightsBefore(c.st, height)))]

RECURSIVE HeldAt(_, _)
HeldAt(holding, i) ==
    IF holding = << >> THEN << >>
    ELSE IF Head(holding).entered = i
         THEN << Head(holding) >> \o HeldAt(Tail(holding), i)
         ELSE HeldAt(Tail(holding), i)

\* SelectTransactionBatchesInHoldingAtHeight: takes no transaction handle,
\* so it reads the committed holding queue `committed`.
SelectTransactionBatchesInHoldingAtHeight(c, committed, i) ==
    IF Faults(c) THEN Fail(c, "store")
    ELSE [Called(c) EXCEPT !.ret = HeldAt(committed.holding, i)]

\* conversions.Convert: floor(amount * rate(from) / rate(to))
Convert(amt, rateFrom, rateTo) == (amt * rateFrom) \div rateTo

\* --------------------------------------------------------------------------
\* applyTransactionBatch
\* --------------------------------------------------------------------------

\* for _, transfer := range tx.Transfers: credit and output-side row
RECURSIVE applyTransfers(_, _, _, _)
applyTransfers(c, batch, i, k) ==
    IF k > Len(batch.txs[i].transfers) THEN c
    ELSE LET tx == batch.txs[i]
             c1 == AddToBalance(c, tx.transfers[k].adr, tx.in.tkr, tx.transfers[k].amt)
             c2 == InsertTransactionRelation(c1, tx.transfers[k].adr, batch.hash, i - 1, TRUE, FALSE)
         IN  IF ~Ok(c1) THEN c1
             ELSE IF ~Ok(c2) THEN c2
             ELSE applyTransfers(c2, batch, i, k + 1)

\* History: the i-th transaction of the batch is reached in this execution
\* of the batch.
TxReached(c, batch, i) ==
    [c EXCEPT !.st.txRuns = @ \cup
        {[hash |-> batch.hash, run |-> c.st.execs[batch.hash] + 1, index |-> i]}]

\* rates[tx.Input.Type] == 0 || rates[tx.Conversion] == 0: return nil.
\* History: the drop of the i-th transaction is recorded.
ZeroRateDrop(c, batch, i) ==
    [c EXCEPT !.st.zeroDrops = @ \cup
        {[hash |-> batch.hash, run |-> c.st.execs[batch.hash] + 1, index |-> i,
          len |-> Len(batch.txs)]}]

\* History: a conversion was executed by the drain at c.st.drainAt; the
\* balances before its debit and after its credit.
Converted(c, r, tx) ==
    [r EXCEPT !.st.convs = @ \cup
        {[at |-> c.st.drainAt, adr |-> tx.in.adr, from |-> tx.in.tkr, to |-> tx.conv,
          amt |-> tx.in.amt, before |-> c.st.bal, after |-> r.st.bal]}]

\* for txIndex, tx := range txBatch.Transactions, from the i-th on.
\* Every return leaves what was written before it in the sql.Tx.
RECURSIVE applyTransactions(_, _, _, _)
applyTransactions(c, batch, rates, i) ==
    IF i > Len(batch.txs) THEN c
    ELSE LET tx == batch.txs[i]
             c1 == SubFromBalance(TxReached(c, batch, i), tx.in.adr, tx.in.tkr, tx.in.amt)
             c2 == InsertTransactionRelation(c1, tx.in.adr, batch.hash, i - 1, FALSE, IsConversion(tx))
             c3 == AddToBalance(c2, tx.in.adr, tx.conv,
                                Convert(tx.in.amt, rates[tx.in.tkr], rates[tx.conv]))
             c4 == applyTransfers(c2, batch, i, 1)
         IN  IF ~Ok(c1) THEN c1                    \* err, or txErr InsufficientBalance
             ELSE IF ~Ok(c2) THEN c2
             ELSE IF IsConversion(tx)
                  THEN IF DOMAIN rates = {} THEN [c2 EXCEPT !.err = "norates"]
                       ELSE IF rates[tx.in.tkr] = 0 \/ rates[tx.conv] = 0
                            THEN ZeroRateDrop(c2, batch, i)   \* the batch ends here
                       ELSE IF ~Ok(c3) THEN c3
                       ELSE applyTransactions(Converted(c, c3, tx), batch, rates, i + 1)
                  ELSE IF ~Ok(c4) THEN c4
                       ELSE applyTransactions(c4, batch, rates, i + 1)

\* What a batch left in the store: its balance changes and relation rows.
Changed(before, after) == before.bal # after.bal \/ before.rel # after.rel

\* History of one execution: it is counted for the hash, and an execution
\* that ended with InsufficientBalance is recorded with whether it left
\* anything in the store.
Executed(c, r, batch) ==
    [r EXCEPT !.st.execs[batch.hash] = @ + 1,
              !.st.drops = IF r.err = "insufficient"
                           THEN @ \cup {[hash |-> batch.hash, changed |-> Changed(c.st, r.st)]}
                           ELSE @]

applyTransactionBatch(c, batch, rates) ==
    Executed(c, applyTransactions(c, batch, rates, 1), batch)

\* err != nil && err != pegnet.InsufficientBalanceErr
Unrecoverable(c) == c.err # "nil" /\ c.err # "insufficient"

\* The caller goes on after a nil or swallowed error.
Continue(c) == [c EXCEPT !.err = "nil"]

\* --------------------------------------------------------------------------
\* ApplyTransactionBatchesInHolding
\* --------------------------------------------------------------------------

\* What the drain returns when applyTransactionBatch ended with an
\* unrecoverable error: `return nil`.
DrainApplyError(c) == [Continue(c) EXCEPT !.st.drainFault = TRUE]

\* err != nil && err != pegnet.InsufficientBalanceErr, as the drain tests it
DrainStops(c) == Unrecoverable(c)

\* How the drain's visit of one held batch ended.
Outcome(c) ==
    IF c.err = "nil" THEN "applied"
    ELSE IF c.err = "insufficient" THEN "insufficient"
    ELSE "fault"

\* History: the drain at currentHeight has visited the k-th batch held at
\* entry height held.entered.
Examined(c, held, k, currentHeight, outcome) ==
    [c EXCEPT !.st.drainLog = @ \cup
        {[at |-> currentHeight, entered |-> held.entered, k |-> k,
          hash |-> held.batch.hash, outcome |-> outcome]}]

\* for _, txBatch := range txBatches, from the k-th on
RECURSIVE drainBatches(_, _, _, _, _)
drainBatches(c, txBatches, rates, currentHeight, k) ==
    IF k > Len(txBatches) THEN [c EXCEPT !.ret = TRUE]
    ELSE LET held == txBatches[k]
             c1 == IsReplayTransaction(c, held.batch.hash)
             c2 == applyTransactionBatch(
                       [c1 EXCEPT !.st.heldApplied = @ \cup
                           {[hash |-> held.batch.hash, entered |-> held.entered, at |-> currentHeight]}],
                       held.batch, rates)
             c3 == Examined(c2, held, k, currentHeight, Outcome(c2))
         IN  IF ~Validate(held.batch)
             THEN drainBatches(Examined(c, held, k, currentHeight, "invalid"),
                               txBatches, rates, currentHeight, k + 1)
             ELSE IF ~Ok(c1) THEN c1
             ELSE IF c1.ret
                  THEN drainBatches(Examined(c1, held, k, currentHeight, "replay"),
                                    txBatches, rates, currentHeight, k + 1)
             ELSE IF DrainStops(c3) THEN [DrainApplyError(c3) EXCEPT !.ret = FALSE]
             ELSE drainBatches(Continue(c3), txBatches, rates, currentHeight, k + 1)

\* for i := height; i < currentHeight; i++
\* ret = FALSE tells the loop that the function has returned.
RECURSIVE drainHeights(_, _, _, _, _)
drainHeights(c, committed, rates, currentHeight, i) ==
    IF i >= currentHeight THEN c
    ELSE LET c1 == SelectTransactionBatchesInHoldingAtHeight(c, committed, i)
             c2 == drainBatches(c1, c1.ret, rates, currentHeight, 1)
         IN  IF ~Ok(c1) THEN c1
             ELSE IF ~Ok(c2) \/ c2.ret = FALSE THEN c2
             ELSE drainHeights(c2, committed, rates, currentHeight, i + 1)

ApplyTransactionBatchesInHolding(c, committed, currentHeight) ==
    LET c1 == SelectMostRecentRatesBeforeHeight([c EXCEPT !.st.drainAt = currentHeight],
                                                currentHeight)
        c2 == SelectPendingRates(c1, currentHeight)
    IN  IF ~Ok(c1) THEN c1
        ELSE IF ~Ok(c2) THEN c2
        ELSE drainHeights(c2, committed, c2.ret, currentHeight, c1.ret)

\* --------------------------------------------------------------------------
\* ApplyTransactionBlock
\* --------------------------------------------------------------------------

\* for _, entry := range eblock.Entries, from the k-th on
RECURSIVE ApplyTransactionBlockFrom(_, _, _, _)
ApplyTransactionBlockFrom(c, entries, height, k) ==
    IF k > Len(entries) THEN c
    ELSE LET txBatch == entries[k].batch
             c1 == IsReplayTransaction(c, txBatch.hash)
             c2 == InsertTransactionBatchHolding(c1, txBatch, height)
             c3 == applyTransactionBatch(c1, txBatch, NoRates)
         IN  IF ~entries[k].parses \/ ~Validate(txBatch)
             THEN ApplyTransactionBlockFrom(c, entries, height, k + 1)
             ELSE IF ~Ok(c1) THEN c1
             ELSE IF c1.ret THEN ApplyTransactionBlockFrom(c1, entries, height, k + 1)
             ELSE IF HasConversions(txBatch)
                  THEN IF ~Ok(c2) THEN c2
                       ELSE ApplyTransactionBlockFrom(c2, entries, height, k + 1)
             ELSE IF Unrecoverable(c3) THEN c3
             ELSE ApplyTransactionBlockFrom(Continue(c3), entries, height, k + 1)

ApplyTransactionBlock(c, entries, height) == ApplyTransactionBlockFrom(c, entries, height, 1)

\* --------------------------------------------------------------------------
\* ApplyFactoidBlock and ApplyGradedOPRBlock
\* --------------------------------------------------------------------------

\* The burn pattern: one EC output, one FCT input, no FCT output, the EC
\* output pays BurnRCD and its amount is 0.
IsBurn(ftx) ==
    /\ Len(ftx.ecOutputs) = 1
    /\ Len(ftx.fctInputs) = 1
    /\ ftx.fctOutputs = 0
    /\ ftx.ecOutputs[1].burnRCD
    /\ ftx.ecOutputs[1].amt = 0

\* An upstream fetch: fails when it is the failAt-th call.
Get(c) == IF Faults(c) THEN Fail(c, "fetch") ELSE Called(c)

\* for i := range fblock.Transactions: cancellation check, fetch, burn test.
\* ret collects the burns.
RECURSIVE registerBurns(_, _, _, _)
registerBurns(c, ftxs, done, i) ==
    IF i > Len(ftxs) THEN c
    ELSE IF done THEN [c EXCEPT !.err = "canceled"]
    ELSE LET c1 == Get(c)
         IN  IF ~Ok(c1) THEN c1
             ELSE IF IsBurn(ftxs[i])
                  THEN registerBurns([c1 EXCEPT !.ret = Append(@, ftxs[i].fctInputs[1])], ftxs, done, i + 1)
                  ELSE registerBurns(c1, ftxs, done, i + 1)

\* A credit of newly issued funds: a burn or a reward.
Mint(c, adr, tkr, amt) ==
    LET c1 == AddToBalance(c, adr, tkr, amt)
    IN  IF Ok(c1) THEN [c1 EXCEPT !.st.minted = TRUE] ELSE c1

\* for i := range burns: credit pFCT
RECURSIVE creditBurns(_, _, _)
creditBurns(c, burns, i) ==
    IF i > Len(burns) THEN c
    ELSE LET c1 == Mint(c, burns[i].adr, "pFCT", burns[i].amt)
         IN  IF ~Ok(c1) THEN c1 ELSE creditBurns(c1, burns, i + 1)

ApplyFactoidBlock(c, ftxs, done) ==
    LET c1 == Get(c)
        c2 == registerBurns([c1 EXCEPT !.ret = << >>], ftxs, done, 1)
    IN  IF ~Ok(c1) THEN c1
        ELSE IF ~Ok(c2) THEN c2
        ELSE creditBurns(c2, c2.ret, 1)

\* for i := range winners: credit the payout in PEG; a winner whose
\* address does not parse is skipped.
RECURSIVE ApplyGradedOPRBlockFrom(_, _, _)
ApplyGradedOPRBlockFrom(c, winners, i) ==
    IF i > Len(winners) THEN c
    ELSE IF ~winners[i].addrOk THEN ApplyGradedOPRBlockFrom(c, winners, i + 1)
    ELSE LET c1 == Mint(c, winners[i].adr, "PEG", winners[i].payout)
         IN  IF ~Ok(c1) THEN c1 ELSE ApplyGradedOPRBlockFrom(c1, winners, i + 1)

ApplyGradedOPRBlock(c, winners) == ApplyGradedOPRBlockFrom(c, winners, 1)

\* --------------------------------------------------------------------------
\* State of the sync engine
\* --------------------------------------------------------------------------

VARIABLES
    pc,         \* position of DBlockSync / SyncBlock
    Synced,     \* d.Sync.Synced, the in-memory cursor
    tip,        \* heights.DirectoryBlock of the current outer iteration
    height,     \* the height argument of the running SyncBlock
    db,         \* the committed store
    txs,        \* the store as seen through the open sql.Tx
    openTx,     \* number of store transactions begun and not yet released
    cancelled,  \* ctx.Done() is closed
    chain,      \* the upstream directory blocks seen so far, by height
    pre,        \* history: the committed store when the last sql.Tx began
    lastExit,   \* history: how the last attempt on a height ended
    mf          \* state of a multiFetch call

vars == <<pc, Synced, tip, height, db, txs, openTx, cancelled, chain, pre, lastExit, mf>>

Workers == 1..NumWorkers

\* multiFetch has not been called yet.
MFIdle ==
    [pc         |-> "get",       \* position of the parent
     n          |-> 0,            \* len(eblock.Entries)
     work       |-> << >>,        \* buffer of the work channel
     workClosed |-> FALSE,
     errsClosed |-> FALSE,
     i          |-> 0,            \* entries put on the work channel
     count      |-> 0,            \* completions received
     last       |-> "nil",        \* the value the parent received last
     result     |-> "none",       \* what multiFetch returned
     fetched    |-> << >>,        \* per entry: "none", "ok" or "err"
     filled     |-> << >>,        \* per position: the entry fetched into it, 0 if none
     w          |-> [x \in Workers |-> [pc |-> "off", j |-> 0, res |-> "nil"]]]

\* isDone(ctx)
isDone == cancelled

\* The directory block the upstream node serves at `h`: the one already
\* seen there, else any.
BlocksAt(h) == IF h \in DOMAIN chain THEN {chain[h]} ELSE Blocks

Known(h, b) == [x \in DOMAIN chain \cup {h} |-> IF x = h THEN b ELSE chain[x]]

dblock == IF height \in DOMAIN chain THEN chain[height] ELSE NoBlock

\* gradedBlock: the result d.Grade gives for the OPR entry block
gradedBlock == dblock.opr

\* --------------------------------------------------------------------------
\* SyncBlock, one action per phase
\* --------------------------------------------------------------------------

\* Mutant: burns and rewards are applied before the drain and the
\* transaction block.
PhaseAfterMintFirst(p) ==
    CASE p = "fetch"   -> "grade"
      [] p = "grade"   -> "burns"
      [] p = "burns"   -> "rewards"
      [] p = "rewards" -> "drain"
      [] p = "drain"   -> "txblock"
      [] p = "txblock" -> "bump"

\* The order of the statements of SyncBlock.
PhaseAfter(p) ==
    CASE p = "fetch"   -> "grade"
      [] p = "grade"   -> "drain"
      [] p = "drain"   -> "txblock"
      [] p = "txblock" -> "burns"
      [] p = "burns"   -> "rewards"
      [] p = "rewards" -> "bump"

\* A phase ended with the call context c: SyncBlock goes on, or returns the error.
PhaseDone(p, c) ==
    /\ txs' = c.st
    /\ pc' = IF Ok(c) THEN PhaseAfter(p) ELSE "failed"
    /\ UNCHANGED <<Synced, tip, height, db, openTx, cancelled, pre, lastExit, mf>>

\* Mutant: SyncBlock does not look at the context before it fetches.
FetchBlockIgnoresCancel ==
    /\ pc = "fetch"
    /\ \E b \in BlocksAt(height), fetched \in BOOLEAN :
          IF fetched
          THEN pc' = PhaseAfter("fetch") /\ chain' = Known(height, b)
          ELSE pc' = "failed" /\ UNCHANGED chain
    /\ UNCHANGED <<Synced, tip, height, db, txs, openTx, cancelled, pre, lastExit, mf>>

\* isDone check, dblock.Get, and multiFetch of the OPR and transaction
\* entry blocks.
FetchBlock ==
    /\ pc = "fetch"
    /\ \/ /\ isDone
          /\ pc' = "failed"
          /\ UNCHANGED chain
       \/ /\ ~isDone
          /\ \E b \in BlocksAt(height), fetched \in BOOLEAN :
                IF fetched
                THEN pc' = PhaseAfter("fetch") /\ chain' = Known(height, b)
                ELSE pc' = "failed" /\ UNCHANGED chain
    /\ UNCHANGED <<Synced, tip, height, db, txs, openTx, cancelled, pre, lastExit, mf>>

\* Mutant: the rate vector of the last winner is recorded.
GradePhaseLastWinner(c, h, gb) ==
    LET c1 == Get(c)
        c2 == InsertGradeBlock(c1, h)
        c3 == InsertRate(c2, h, gb.winners[Len(gb.winners)].rates)
    IN  IF ~Ok(c1) THEN c1
        ELSE IF ~gb.graded THEN c1
        ELSE IF ~Ok(c2) THEN c2
        ELSE IF 0 < Len(gb.winners) THEN c3
        ELSE c2

\* d.Grade, InsertGradeBlock, InsertRate of winners[0]
GradePhase(c, h, gb) ==
    LET c1 == Get(c)
        c2 == InsertGradeBlock(c1, h)
        c3 == InsertRate(c2, h, gb.winners[1].rates)
    IN  IF ~Ok(c1) THEN c1
        ELSE IF ~gb.graded THEN c1
        ELSE IF ~Ok(c2) THEN c2
        ELSE IF 0 < Len(gb.winners) THEN c3
        ELSE c2

GradeBlock ==
    /\ pc = "grade"
    /\ \E f \in 0..MaxFaultPos : PhaseDone("grade", GradePhase(Ctx(txs, f), height, gradedBlock))
    /\ UNCHANGED chain

\* Mutant: the drain runs for every graded block, winners or not.
DrainGuardIgnoresWinners(gb) == gb.graded

\* gradedBlock != nil && 0 < len(gradedBlock.Winners())
DrainGuard(gb) == gb.graded /\ 0 < Len(gb.winners)

DrainHolding ==
    /\ pc = "drain"
    /\ \E f \in 0..MaxFaultPos :
          PhaseDone("drain",
                    IF DrainGuard(gradedBlock)
                    THEN ApplyTransactionBatchesInHolding(Ctx(txs, f), db, height)
                    ELSE Ctx(txs, f))
    /\ UNCHANGED chain

ApplyTransactions ==
    /\ pc = "txblock"
    /\ \E f \in 0..MaxFaultPos :
          PhaseDone("txblock",
                    IF dblock.hasTx
                    THEN ApplyTransactionBlock(Ctx(txs, f), dblock.entries, height)
                    ELSE Ctx(txs, f))
    /\ UNCHANGED chain

ApplyBurns ==
    /\ pc = "burns"
    /\ \E f \in 0..MaxFaultPos :
          PhaseDone("burns", ApplyFactoidBlock(Ctx(txs, f), dblock.ftxs, isDone))
    /\ UNCHANGED chain

ApplyRewards ==
    /\ pc = "rewards"
    /\ \E f \in 0..MaxFaultPos :
          PhaseDone("rewards",
                    IF gradedBlock.graded
                    THEN ApplyGradedOPRBlock(Ctx(txs, f), gradedBlock.winners)
                    ELSE Ctx(txs, f))
    /\ UNCHANGED chain

\* --------------------------------------------------------------------------
\* DBlockSync
\* --------------------------------------------------------------------------

\* tx.Rollback(): the transaction is released and DBlockSync goes on at
\* `next`, or the rollback fails and the process ends in log.Fatal.
Rollback(next, exit) ==
    \/ /\ openTx' = openTx - 1
       /\ txs' = EmptyStore
       /\ pc' = next
       /\ lastExit' = exit
    \/ /\ pc' = "fatal"
       /\ lastExit' = exit
       /\ UNCHANGED <<openTx, txs>>

\* Top of OuterSyncLoop: cancellation check, heights.Get, the synced test.
OuterSyncLoop ==
    /\ pc = "outer"
    /\ \/ /\ isDone
          /\ pc' = "returned"
          /\ UNCHANGED tip
       \/ /\ ~isDone
          /\ UNCHANGED <<pc, tip>>                    \* heights.Get failed
       \/ /\ ~isDone
          /\ \E t \in 0..MaxHeight :
                IF Synced >= t
                THEN pc' = pc /\ tip' = t             \* synced: sleep and poll again
                ELSE pc' = "inner" /\ tip' = t
    /\ UNCHANGED <<Synced, height, db, txs, openTx, cancelled, chain, pre, lastExit, mf>>

\* Mutant: the catch-up loop runs one height past the tip.
CatchUpPastTip ==
    /\ pc = "inner"
    /\ IF Synced <= tip
       THEN \/ /\ isDone
               /\ pc' = "returned"
               /\ UNCHANGED <<tip, height, txs, openTx, pre>>
            \/ /\ ~isDone                              \* BeginTx failed: continue
               /\ UNCHANGED <<pc, tip, height, txs, openTx, pre>>
            \/ /\ ~isDone
               /\ openTx' = openTx + 1
               /\ txs' = [db EXCEPT !.minted = FALSE]
               /\ pre' = db
               /\ height' = Synced + 1
               /\ pc' = "fetch"
               /\ UNCHANGED tip
       ELSE /\ pc' = "outer"
            /\ tip' = 0
            /\ UNCHANGED <<height, txs, openTx, pre>>
    /\ UNCHANGED <<Synced, db, cancelled, chain, lastExit, mf>>

\* for d.Sync.Synced < heights.DirectoryBlock: cancellation check, BeginTx,
\* the call of SyncBlock on Synced+1.
CatchUp ==
    /\ pc = "inner"
    /\ IF Synced < tip
       THEN \/ /\ isDone
               /\ pc' = "returned"
               /\ UNCHANGED <<tip, height, txs, openTx, pre>>
            \/ /\ ~isDone                              \* BeginTx failed: continue
               /\ UNCHANGED <<pc, tip, height, txs, openTx, pre>>
            \/ /\ ~isDone
               /\ openTx' = openTx + 1
               /\ txs' = [db EXCEPT !.minted = FALSE]
               /\ pre' = db
               /\ height' = Synced + 1
               /\ pc' = "fetch"
               /\ UNCHANGED tip
       ELSE /\ pc' = "outer"
            /\ tip' = 0
            /\ UNCHANGED <<height, txs, openTx, pre>>
    /\ UNCHANGED <<Synced, db, cancelled, chain, lastExit, mf>>

\* Mutant: the error path commits what the failed SyncBlock wrote.
SyncBlockFailedCommits ==
    /\ pc = "failed"
    /\ db' = txs
    /\ txs' = EmptyStore
    /\ openTx' = openTx - 1
    /\ pc' = "outer"
    /\ lastExit' = "sync_failed"
    /\ tip' = 0
    /\ UNCHANGED <<Synced, height, cancelled, chain, pre, mf>>

\* Mutant: after a failed SyncBlock the catch-up run goes on with the tip
\* it has.
SyncBlockFailedKeepsTip ==
    /\ pc = "failed"
    /\ Rollback("inner", "sync_failed")
    /\ UNCHANGED <<Synced, tip, height, db, cancelled, chain, pre, mf>>

\* SyncBlock returned an error: roll back and continue OuterSyncLoop.
\* `height` keeps the height of the failed call.
SyncBlockFailed ==
    /\ pc = "failed"
    /\ Rollback("outer", "sync_failed")
    /\ tip' = 0
    /\ UNCHANGED <<Synced, height, db, cancelled, chain, pre, mf>>

\* d.Sync.Synced++ and InsertSynced succeeded.
BumpSynced ==
    /\ pc = "bump"
    /\ \E c \in {InsertSynced(Ctx(txs, 0), Synced + 1)} :
          /\ Synced' = Synced + 1
          /\ txs' = c.st
    /\ pc' = "commit"
    /\ height' = 0
    /\ UNCHANGED <<tip, db, openTx, cancelled, chain, pre, lastExit, mf>>

\* Mutant: the InsertSynced error path forgets the rollback.
InsertSyncedFailedNoRollback ==
    /\ pc = "bump"
    /\ pc' = "outer"
    /\ lastExit' = "insert_failed"
    /\ tip' = 0
    /\ height' = 0
    /\ UNCHANGED <<Synced, db, txs, openTx, cancelled, chain, pre, mf>>

\* Mutant: the InsertSynced error path forgets d.Sync.Synced--.
InsertSyncedFailedKeepsCursor ==
    /\ pc = "bump"
    /\ Rollback("outer", "insert_failed")
    /\ Synced' = Synced + 1
    /\ tip' = 0
    /\ height' = 0
    /\ UNCHANGED <<db, cancelled, chain, pre, mf>>

\* d.Sync.Synced++, InsertSynced failed: d.Sync.Synced--, roll back and
\* continue OuterSyncLoop.
InsertSyncedFailed ==
    /\ pc = "bump"
    /\ Rollback("outer", "insert_failed")
    /\ tip' = 0
    /\ height' = 0
    /\ UNCHANGED <<Synced, db, cancelled, chain, pre, mf>>

\* tx.Commit() succeeded: the working copy becomes the committed store.
Commit ==
    /\ pc = "commit"
    /\ db' = txs
    /\ txs' = EmptyStore
    /\ openTx' = openTx - 1
    /\ lastExit' = "committed"
    /\ pc' = "inner"
    /\ UNCHANGED <<Synced, tip, height, cancelled, chain, pre, mf>>

\* Mutant: the commit error path forgets d.Sync.Synced--.
CommitFailedKeepsCursor ==
    /\ pc = "commit"
    /\ Rollback("inner", "commit_failed")
    /\ UNCHANGED <<Synced, tip, height, db, cancelled, chain, pre, mf>>

\* tx.Commit() failed: d.Sync.Synced--, roll back, and go on to the next
\* iteration of the catch-up loop.
CommitFailed ==
    /\ pc = "commit"
    /\ Synced' = Synced - 1
    /\ Rollback("inner", "commit_failed")
    /\ UNCHANGED <<tip, height, db, cancelled, chain, pre, mf>>

\* The context is cancelled (ctl+c) while DBlockSync runs.
Cancel ==
    /\ ~cancelled
    /\ pc \notin {"returned", "fatal"}
    /\ cancelled' = TRUE
    /\ UNCHANGED <<pc, Synced, tip, height, db, txs, openTx, chain, pre, lastExit, mf>>

\* The process is started again: the open transaction died with the old
\* process and the cursor is rehydrated from the persisted record.
Restart ==
    /\ pc \in {"returned", "fatal"}
    /\ pc' = "outer"
    /\ Synced' = db.synced
    /\ tip' = 0
    /\ height' = 0
    /\ txs' = EmptyStore
    /\ openTx' = 0
    /\ cancelled' = FALSE
    /\ lastExit' = "none"
    /\ UNCHANGED <<db, chain, pre, mf>>

Init ==
    /\ pc = "outer"
    /\ Synced = 0
    /\ tip = 0
    /\ height = 0
    /\ db = EmptyStore
    /\ txs = EmptyStore
    /\ openTx = 0
    /\ cancelled = FALSE
    /\ chain = << >>
    /\ pre = EmptyStore
    /\ lastExit = "none"
    /\ mf = MFIdle

Next ==
    \/ OuterSyncLoop
    \/ CatchUp
    \/ FetchBlock
    \/ GradeBlock
    \/ DrainHolding
    \/ ApplyTransactions
    \/ ApplyBurns
    \/ ApplyRewards
    \/ SyncBlockFailed
    \/ BumpSynced
    \/ InsertSyncedFailed
    \/ Commit
    \/ CommitFailed
    \/ Cancel
    \/ Restart

Spec == Init /\ [][Next]_vars

\* --------------------------------------------------------------------------
\* multiFetch: the parent, the work and errs channels, and the workers
\* --------------------------------------------------------------------------

\* eblock.Get failed: multiFetch returns the error before any channel exists.
MFGetFailed ==
    /\ mf.pc = "get"
    /\ mf' = [mf EXCEPT !.pc = "done", !.result = "err"]
    /\ UNCHANGED <<pc, Synced, tip, height, db, txs, openTx, cancelled, chain, pre, lastExit>>

\* eblock.Get succeeded for a block of n entries; the channels are made
\* and the workers are started.
MFStart ==
    /\ mf.pc = "get"
    /\ \E n \in 0..MaxEntries :
          mf' = [mf EXCEPT !.pc = "enqueue", !.n = n,
                           !.fetched = [j \in 1..n |-> "none"],
                           !.filled = [j \in 1..n |-> 0],
                           !.w = [x \in Workers |-> [pc |-> "idle", j |-> 0, res |-> "nil"]]]
    /\ UNCHANGED <<pc, Synced, tip, height, db, txs, openTx, cancelled, chain, pre, lastExit>>

\* for i := range eblock.Entries { work <- i }: the buffer holds them all,
\* so the send never blocks.
MFEnqueue ==
    /\ mf.pc = "enqueue"
    /\ IF mf.i < mf.n
       THEN mf' = [mf EXCEPT !.work = Append(@, mf.i + 1), !.i = @ + 1]
       ELSE mf' = [mf EXCEPT !.pc = "collect"]
    /\ UNCHANGED <<pc, Synced, tip, height, db, txs, openTx, cancelled, chain, pre, lastExit>>

\* for j := range work: a worker takes the next index.
WorkerTake(x) ==
    /\ mf.w[x].pc = "idle"
    /\ mf.work # << >>
    /\ mf' = [mf EXCEPT !.work = Tail(@),
                        !.w[x] = [pc |-> "fetching", j |-> Head(mf.work), res |-> "nil"]]
    /\ UNCHANGED <<pc, Synced, tip, height, db, txs, openTx, cancelled, chain, pre, lastExit>>

\* eblock.Entries[j].Get(c): the fetch fills position j, or fails.
WorkerFetch(x) ==
    /\ mf.w[x].pc = "fetching"
    /\ \E ok \in BOOLEAN :
          mf' = [mf EXCEPT !.w[x].pc = "sending",
                           !.w[x].res = IF ok THEN "nil" ELSE "err",
                           !.fetched[mf.w[x].j] = IF ok THEN "ok" ELSE "err",
                           !.filled[mf.w[x].j] = IF ok THEN mf.w[x].j ELSE @]
    /\ UNCHANGED <<pc, Synced, tip, height, db, txs, openTx, cancelled, chain, pre, lastExit>>

\* The work channel is closed and drained: the worker's range loop ends.
WorkerExit(x) ==
    /\ mf.w[x].pc = "idle"
    /\ mf.work = << >>
    /\ mf.workClosed
    /\ mf' = [mf EXCEPT !.w[x].pc = "exited"]
    /\ UNCHANGED <<pc, Synced, tip, height, db, txs, openTx, cancelled, chain, pre, lastExit>>

\* errs <- ... on the closed errs channel: the send panics.
WorkerPanic(x) ==
    /\ mf.w[x].pc = "sending"
    /\ mf.errsClosed
    /\ mf' = [mf EXCEPT !.w[x].pc = "panicked"]
    /\ UNCHANGED <<pc, Synced, tip, height, db, txs, openTx, cancelled, chain, pre, lastExit>>

\* Mutant: the collector counts completions without looking at the error.
DecideIgnoresError(count, e, n) == IF count = n THEN "nil" ELSE "more"

\* The body of `for e := range errs` after count++: return e, break, or
\* wait for the next completion.
Decide(count, e, n) ==
    IF e # "nil" THEN "err"
    ELSE IF count = n THEN "nil"
    ELSE "more"

\* errs is unbuffered: worker x's send and the parent's receive meet.
MFReceive(x) ==
    /\ mf.pc = "collect"
    /\ mf.w[x].pc = "sending"
    /\ ~mf.errsClosed
    /\ mf' = [mf EXCEPT !.count = @ + 1,
                        !.last = mf.w[x].res,
                        !.w[x] = [pc |-> "idle", j |-> 0, res |-> "nil"],
                        !.pc = IF Decide(mf.count + 1, mf.w[x].res, mf.n) = "more"
                               THEN "collect" ELSE "return"]
    /\ UNCHANGED <<pc, Synced, tip, height, db, txs, openTx, cancelled, chain, pre, lastExit>>

\* return e / return nil: the deferred close(errs) and close(work) run.
MFReturn ==
    /\ mf.pc = "return"
    /\ mf' = [mf EXCEPT !.pc = "done",
                        !.result = Decide(mf.count, mf.last, mf.n),
                        !.errsClosed = TRUE,
                        !.workClosed = TRUE]
    /\ UNCHANGED <<pc, Synced, tip, height, db, txs, openTx, cancelled, chain, pre, lastExit>>

MFNext ==
    \/ MFGetFailed
    \/ MFStart
    \/ MFEnqueue
    \/ \E x \in Workers : MFReceive(x)
    \/ MFReturn
    \/ \E x \in Workers : WorkerTake(x)
    \/ \E x \in Workers : WorkerFetch(x)
    \/ \E x \in Workers : WorkerExit(x)
    \/ \E x \in Workers : WorkerPanic(x)

MFSpec == Init /\ [][MFNext]_vars

\* --------------------------------------------------------------------------
\* A fault-free replay of the chain from the empty store
\* --------------------------------------------------------------------------

\* SyncBlock on height h with block b followed by InsertSynced, with no
\* fault and no cancellation.
SyncHeight(st, h, b) ==
    LET c0 == Ctx([st EXCEPT !.minted = FALSE], 0)
        c1 == GradePhase(c0, h, b.opr)
        c2 == IF DrainGuard(b.opr) THEN ApplyTransactionBatchesInHolding(c1, st, h) ELSE c1
        c3 == IF b.hasTx THEN ApplyTransactionBlock(c2, b.entries, h) ELSE c2
        c4 == ApplyFactoidBlock(c3, b.ftxs, FALSE)
        c5 == IF b.opr.graded THEN ApplyGradedOPRBlock(c4, b.opr.winners) ELSE c4
    IN  InsertSynced(c5, h).st

RECURSIVE Replay(_)
Replay(n) == IF n = 0 THEN EmptyStore ELSE SyncHeight(Replay(n - 1), n, chain[n])

\* --------------------------------------------------------------------------
\* Properties
\* --------------------------------------------------------------------------

\* C1 (Atomicity): after SyncBlock returned an error for a height, the
\* committed store is exactly the store as it was when the attempt began.
C1_Atomicity == lastExit = "sync_failed" => db = pre

\* C1 witness: an attempt on a height above 1 failed and was rolled back.
C1_Witness ==
    lastExit = "sync_failed" /\ pc = "outer" /\ openTx = 0 /\ db.synced >= 1 /\ db = pre

\* C2 (Monotonic cursor): a successful commit moves the persisted
\* synced_height from h to exactly h+1, and no other step (rollbacks
\* included) changes it.
C2_MonotonicCursor ==
    [][ IF pc = "commit" /\ pc' = "inner" /\ lastExit' = "committed"
        THEN db'.synced = db.synced + 1
        ELSE db'.synced = db.synced ]_vars

\* C2 witness: two heights are committed and a later commit has failed.
C2_Witness == db.synced >= 2 /\ lastExit = "commit_failed" /\ pc = "inner"

\* Held batches applied in store st were applied at a rate-epoch height
\* after their entry height, with no rate epoch in between.
Deferred(st) ==
    \A r \in st.heldApplied :
        /\ r.at > r.entered
        /\ \E e \in st.rates : e.h = r.at
        /\ ~ \E e \in st.rates : r.entered < e.h /\ e.h < r.at

\* C3 (Deferred conversion): every held batch the drain applies at height A
\* entered at E < A, and A is the earliest rate-epoch height after E.
C3_DeferredConversion == Deferred(db) /\ Deferred(txs)

\* C3 witness: a committed drain has applied a held conversion batch.
C3_Witness == \E r \in db.heldApplied : r.hash = "h3" /\ db.bal[<<"A", "PEG">>] > 0

\* C4 (At-most-once), as claimed: in the committed history
\* applyTransactionBatch has run at most once for every batch hash.
C4_AtMostOnce == \A h \in Hashes : db.execs[h] <= 1

\* C5 (Block-abort in the drain), as claimed: no height is committed whose
\* drain met an unrecoverable error of applyTransactionBatch.
C5_DrainFaultAborts == ~db.drainFault

\* C6 (Insufficient-balance drop), as claimed: a batch that ended with
\* InsufficientBalance left no balance change and no relation row in the
\* committed store.
C6_DropLeavesNothing == \A d \in db.drops : ~d.changed

\* C7 (Minted funds spendable from H+1): when the holding drain and the
\* transaction block of a height run, no burn or reward of that height has
\* been credited.
C7_MintedNotSpendable == pc \in {"drain", "txblock"} => ~txs.minted

\* C7 witness: a height that executed a batch has then minted funds.
C7_Witness == pc = "bump" /\ txs.minted /\ txs.execs # pre.execs

\* C8 (Replay idempotence), as claimed: whenever DBlockSync is between
\* attempts, the committed balance table is the one a single fault-free
\* run over the same chain up to the committed height produces.
C8_ReplayIdempotence ==
    (pc = "outer" /\ openTx = 0) => db.bal = Replay(db.synced).bal

\* C9 (Transaction release): at most one store transaction is open, and
\* none is open at the top of either loop or when DBlockSync has returned.
C9_TxReleased ==
    /\ openTx <= 1
    /\ pc \in {"outer", "inner", "returned"} => openTx = 0

\* C9 witness: DBlockSync returned after a cancelled SyncBlock was rolled back.
C9_Witness == pc = "returned" /\ cancelled /\ lastExit = "sync_failed" /\ openTx = 0

\* C10 (multiFetch contract): multiFetch returns success only when every
\* one of the N entry fetches has completed successfully and filled its
\* own position; once it has returned with a failed fetch on record, it
\* has returned the error.
C10_MultiFetchContract ==
    /\ mf.result = "nil" =>
          \A j \in 1..mf.n : mf.fetched[j] = "ok" /\ mf.filled[j] = j
    /\ (mf.pc = "done" /\ \E j \in 1..mf.n : mf.fetched[j] = "err") => mf.result = "err"

\* C10 witness: multiFetch returned success for a block of several entries.
C10_Witness == mf.result = "nil" /\ mf.n >= 2

\* C11: once the context is cancelled DBlockSync eventually returns; a
\* SyncBlock that sees the cancellation (at its start, or before the fetch of
\* a factoid transaction) fails, the failed height is rolled back without a
\* commit, and no new height is started while the context is cancelled.
\* The original statement, in the form a finite run refutes: a cancelled
\* DBlockSync that has stopped has stopped by returning.
Stopped == pc \in {"returned", "fatal"}

ObservesCancel ==
    \/ pc = "fetch"
    \/ pc = "burns" /\ Len(dblock.ftxs) > 0

Rank(p) ==
    CASE p = "fetch"    -> 12
      [] p = "grade"    -> 11
      [] p = "drain"    -> 10
      [] p = "txblock"  -> 9
      [] p = "burns"    -> 8
      [] p = "rewards"  -> 7
      [] p = "bump"     -> 6
      [] p = "commit"   -> 5
      [] p = "failed"   -> 4
      [] p = "inner"    -> 3
      [] p = "outer"    -> 2
      [] p = "returned" -> 1
      [] p = "fatal"    -> 0

\* What a step of DBlockSync does once the context is cancelled.
CancelSafe ==
    (cancelled /\ cancelled') =>
        /\ Rank(pc') < Rank(pc)
        /\ ObservesCancel => pc' = "failed"
        /\ pc = "failed" => (db' = db /\ pc' \in {"outer", "fatal"})
        /\ pc = "outer" => pc' = "returned"
        /\ pc = "inner" => pc' \in {"returned", "outer"}

C12_ZeroRateContinues ==
    \A z \in db.zeroDrops : \A j \in (z.index + 1)..z.len :
        [hash |-> z.hash, run |-> z.run, index |-> j] \in db.txRuns

\* C13: when applyTransactionBatch returns InsufficientBalance for a held
\* batch, the drain drops that batch without an error and goes on: every
\* held batch that follows it in the drain window (the rest of its entry
\* height and the later entry heights below the current height) is visited
\* (validated, replay-checked, applied) by the same drain.
Follows(i1, k1, i2, k2) == i1 < i2 \/ (i1 = i2 /\ k1 < k2)

VisitedBy(st, at, i, k) ==
    \E q \in st.drainLog : q.at = at /\ q.entered = i /\ q.k = k

DrainGoesOn(st) ==
    \A r \in st.drainLog : r.outcome = "insufficient" =>
        \A i \in r.entered..(r.at - 1) : \A k \in 1..Len(HeldAt(st.holding, i)) :
            Follows(r.entered, r.k, i, k) => VisitedBy(st, r.at, i, k)

C13_DrainContinues == DrainGoesOn(db)

\* C14: a conversion of amount a from X to Y that the drain at height H
\* applies with both rates nonzero debits exactly a of X and credits exactly
\* floor(a * rate[X] / rate[Y]) of Y to the same address, and changes no
\* other balance, where rate is the vector of the first winner of the block
\* at height H itself.
FirstWinnerRates(h) == chain[h].opr.winners[1].rates

SyncBlockCalled == pc = "inner" /\ pc' = "fetch"

RecoveryStep ==
    /\ (pc = "failed" /\ cancelled' = cancelled) =>
          /\ pc' \in {"outer", "fatal"}
          /\ db' = db /\ Synced' = Synced /\ height = Synced + 1
          /\ pc' = "outer" => (openTx' = 0 /\ tip' = 0)
    /\ (pc = "outer" /\ pc' = "inner") => (tip' >= Synced + 1 /\ Synced' = Synced)
    /\ (pc' = "fetch" /\ pc # "fetch") => (pc = "inner" /\ height' = Synced + 1 /\ height' <= tip)
    /\ (SyncBlockCalled /\ lastExit = "sync_failed") => height' = height

C15_Recovery == [][RecoveryStep]_vars

C15_Witness == pc = "fetch" /\ lastExit = "sync_failed" /\ height = 2 /\ db.synced = 1

\* C16: a poll that finds the tip at or below the cursor, or that fails,
\* stays at the top of OuterSyncLoop with no store transaction open and
\* with the cursor and the persisted state unchanged; SyncBlock only ever
\* runs on a height that is at most the most recently fetched tip.
InSyncBlock(p) == p \in {"fetch", "grade", "drain", "txblock", "burns", "rewards"}

QuietStep ==
    /\ (pc = "outer" /\ pc' = "outer") =>
          (Synced' = Synced /\ db' = db /\ openTx = 0 /\ openTx' = 0 /\ tip' <= Synced)
    /\ (pc = "outer" /\ pc' = "inner") => tip' > Synced
    /\ InSyncBlock(pc') => (1 <= height' /\ height' <= tip')

C16_QuietWait == [][QuietStep]_vars

C16_Witness == pc = "outer" /\ tip >= 1 /\ tip <= Synced /\ Synced = db.synced /\ openTx = 0

\* C17: in every interleaving of multiFetch no worker sends on errs after
\* the parent has closed it (no send panics), and the parent closes the
\* channels only when no worker can still send a completion.
C17_NoSendOnClosed == \A x \in Workers : mf.w[x].pc # "panicked"

\* C18: for every number of entries, zero included, and every pattern of
\* successes and failures, once every fetch has returned multiFetch returns
\* and all 8 workers terminate: multiFetch can take a step until it has
\* returned with every worker ended.
Terminated ==
    /\ mf.pc = "done"
    /\ \A x \in Workers : mf.w[x].pc \in {"off", "exited"}

C18_Terminates == Terminated \/ ENABLED MFNext

\* C19: whenever no store transaction is open (top of OuterSyncLoop, top of
\* a catch-up iteration, DBlockSync returned) the in-memory cursor
\* d.Sync.Synced equals the persisted synced_height, also after a failed
\* SyncBlock, a failed InsertSynced and a failed commit.
C19_WriteThrough ==
    pc \in {"outer", "inner", "returned"} => (openTx = 0 /\ Synced = db.synced)

C19_Witness ==
    /\ pc = "outer" /\ lastExit = "insert_failed"
    /\ openTx = 0 /\ Synced = db.synced /\ Synced >= 1

\* C20: the drain windows of the rate-epoch heights are disjoint and
\* contiguous, so every held batch whose entry height is at or after the
\* first rate epoch, and that a later rate epoch has followed, has been
\* visited by exactly one committed drain: the drain at the first
\* rate-epoch height after its entry height.
Epochs(st) == {e.h : e \in st.rates}

Min(S) == CHOOSE x \in S : \A y \in S : x <= y

EpochsAfter(st, i) == {h \in Epochs(st) : h > i}

VisitsOf(st, i, k) == {q.at : q \in {x \in st.drainLog : x.entered = i /\ x.k = k}}

DrainedOnce(st) ==
    \A i \in 1..st.synced : \A k \in 1..Len(HeldAt(st.holding, i)) :
        (Epochs(st) # {} /\ i >= Min(Epochs(st)) /\ EpochsAfter(st, i) # {}) =>
            VisitsOf(st, i, k) = {Min(EpochsAfter(st, i))}

C20_DrainPartition == DrainedOnce(db)

====
